---- MODULE Spec2Model ----
(***************************************************************************)
(* tinfo (src/src/main.rs): one run of the tool.  The run parses the       *)
(* output of `tmux list-sessions` and `tmux list-windows -a` into a        *)
(* WindowList (HashMap<usize, Window>), optionally filters it with         *)
(* select_tabs and then dumps it, or spawns move-window / attach-session. *)
(*                                                                         *)
(* Text is modelled as sequences of one-character strings, so that the     *)
(* two regular expressions, split('\n'), str::find, str::parse and         *)
(* format! are computed character by character.                            *)
(***************************************************************************)
EXTENDS Integers, Sequences, FiniteSets, TLC

VARIABLES
    pc,        \* position of the run in main / build_windowlist / populate
    args,      \* values of the positional "search terms" (<<>>: none given)
    flag,      \* "none", "get" (-G) or "attach" (-a)
    sessOut,   \* `out` of build_windowlist: [status, stdout], NoOutput before
    winOut,    \* `out` of populate: [status, stdout], NoOutput before
    idx,       \* index of the line the current `for line in ...` loop is at
    windows,   \* the WindowList built by build_windowlist
    searched,  \* SomeList(the WindowList select_tabs returned), NoList before
    spawned,   \* the tmux commands the run has started, in order
    stdout,    \* what dump has printed, line by line
    panic      \* "none", or the cause of the panic that ended the run

vars == <<pc, args, flag, sessOut, winOut, idx, windows, searched, spawned,
          stdout, panic>>

(***************************************************************************)
(* Bounds of the model.                                                    *)
(***************************************************************************)
MaxSessLines == 2
MaxWinLines == 2

(***************************************************************************)
(* Text helpers.                                                           *)
(***************************************************************************)
NL == "\n"

Digits == <<"0", "1", "2", "3", "4", "5", "6", "7", "8", "9">>

IsDigit(c) == \E i \in 1..10 : Digits[i] = c

DigitValue(c) == (CHOOSE i \in 1..10 : Digits[i] = c) - 1

SetMax(S) == CHOOSE x \in S : \A y \in S : y <= x

\* s has the literal lit at position i
HasAt(s, i, lit) ==
    /\ i >= 1
    /\ i + Len(lit) - 1 <= Len(s)
    /\ SubSeq(s, i, i + Len(lit) - 1) = lit

\* length of the longest run of digits of s that starts at position i
RECURSIVE DigitRun(_, _)
DigitRun(s, i) ==
    IF i >= 1 /\ i <= Len(s) /\ IsDigit(s[i]) THEN 1 + DigitRun(s, i + 1) ELSE 0

\* str::parse::<usize> on a run of digits
RECURSIVE ParseUsize(_)
ParseUsize(s) ==
    IF s = <<>> THEN 0
    ELSE 10 * ParseUsize(SubSeq(s, 1, Len(s) - 1)) + DigitValue(s[Len(s)])

\* format!("{}", n) of a usize
RECURSIVE FormatUsize(_)
FormatUsize(n) ==
    IF n < 10 THEN <<Digits[n + 1]>>
    ELSE FormatUsize(n \div 10) \o <<Digits[(n % 10) + 1]>>

\* position of the first '\n' of t, 0 if there is none
RECURSIVE FirstNewline(_, _)
FirstNewline(t, i) ==
    IF i > Len(t) THEN 0
    ELSE IF t[i] = NL THEN i
    ELSE FirstNewline(t, i + 1)

\* str::split('\n'): the pieces between newlines, the last one included
RECURSIVE Split(_)
Split(t) ==
    LET nl == FirstNewline(t, 1)
    IN  IF nl = 0 THEN <<t>>
        ELSE <<SubSeq(t, 1, nl - 1)>> \o Split(SubSeq(t, nl + 1, Len(t)))

\* Contains with an empty needle found nowhere
ContainsNonEmpty(hay, needle) ==
    needle # <<>> /\ \E i \in 1..Len(hay) : HasAt(hay, i, needle)

\* str::find(needle).is_some(): needle is a contiguous part of hay
Contains(hay, needle) ==
    \E i \in 1..(Len(hay) + 1) : HasAt(hay, i, needle)

\* Iterator<&str>::collect::<String>(): the pieces joined with nothing between
RECURSIVE Concat(_)
Concat(ss) == IF ss = <<>> THEN <<>> ELSE Head(ss) \o Concat(Tail(ss))

(***************************************************************************)
(* The two regular expressions.                                            *)
(***************************************************************************)
LitColonSpace == <<":", " ">>
LitWindows == <<" ", "w", "i", "n", "d", "o", "w", "s", " ", "(">>
LitCloseOpen == <<")", " ", "[">>
LitAttached == <<" ", "(", "a", "t", "t", "a", "c", "h", "e", "d", ")">>
LitSpaceParen == <<" ", "(">>
LitPanes == <<" ", "p", "a", "n", "e", "s", ")", " ", "[">>

NoMatch == [matched |-> FALSE]

\* `\[\d+x\d+\]` without its `[`, at position i: the position after `]`, else 0
DimensionEnd(s, i) ==
    LET w == DigitRun(s, i)
        h == DigitRun(s, i + w + 1)
    IN  IF /\ w >= 1
           /\ HasAt(s, i + w, <<"x">>)
           /\ h >= 1
           /\ HasAt(s, i + w + 1 + h, <<"]">>)
        THEN i + w + 1 + h + 1
        ELSE 0

\* `\) \[\d+x\d+\]` at position p: the position after it, else 0
SessionTailEnd(s, p) ==
    IF HasAt(s, p, LitCloseOpen) THEN DimensionEnd(s, p + Len(LitCloseOpen))
    ELSE 0

\* SESSION_RE.captures(line):
\*   ^(\d+): \d+ windows \(.*\) \[\d+x\d+\]( \(attached\))?
\* The `.*` is greedy: it ends at the last place where the rest matches.
SessionCaptures(line) ==
    LET d1 == DigitRun(line, 1)
        b == 1 + d1 + Len(LitColonSpace)
        d2 == DigitRun(line, b)
        e == b + d2 + Len(LitWindows)
        ends == {p \in e..Len(line) : SessionTailEnd(line, p) # 0}
    IN  IF /\ d1 >= 1
           /\ HasAt(line, 1 + d1, LitColonSpace)
           /\ d2 >= 1
           /\ HasAt(line, b + d2, LitWindows)
           /\ ends # {}
        THEN [matched |-> TRUE,
              g1 |-> SubSeq(line, 1, d1),
              g2 |-> HasAt(line, SessionTailEnd(line, SetMax(ends)), LitAttached)]
        ELSE NoMatch

\* ` \((\d+) panes\) \[(\d+)x(\d+)\]` at position p: the position after it, else 0
WindowTailEnd(s, p) ==
    LET n == DigitRun(s, p + Len(LitSpaceParen))
    IN  IF /\ HasAt(s, p, LitSpaceParen)
           /\ n >= 1
           /\ HasAt(s, p + Len(LitSpaceParen) + n, LitPanes)
        THEN DimensionEnd(s, p + Len(LitSpaceParen) + n + Len(LitPanes))
        ELSE 0

\* WINDOW_RE.captures(line):
\*   ^(\d+):(\d+): (.*) \((\d+) panes\) \[(\d+)x(\d+)\]
WindowCaptures(line) ==
    LET d1 == DigitRun(line, 1)
        b == 1 + d1 + 1
        d2 == DigitRun(line, b)
        e == b + d2 + Len(LitColonSpace)
        ends == {p \in e..Len(line) : WindowTailEnd(line, p) # 0}
    IN  IF /\ d1 >= 1
           /\ HasAt(line, 1 + d1, <<":">>)
           /\ d2 >= 1
           /\ HasAt(line, b + d2, LitColonSpace)
           /\ ends # {}
        THEN LET p == SetMax(ends)
             IN  [matched |-> TRUE,
                  g1 |-> SubSeq(line, 1, d1),
                  g2 |-> SubSeq(line, b, b + d2 - 1),
                  g3 |-> SubSeq(line, e, p - 1),
                  g4 |-> SubSeq(line, p + Len(LitSpaceParen),
                                p + Len(LitSpaceParen)
                                  + DigitRun(line, p + Len(LitSpaceParen)) - 1)]
        ELSE NoMatch

(***************************************************************************)
(* Tab, Window, WindowList.                                                *)
(***************************************************************************)
TabNew(name, number, panes) == [name |-> name, number |-> number, panes |-> panes]

WindowNew(tabs, attached) == [tabs |-> tabs, attached |-> attached]

\* WindowPush with the tab put first instead of last
WindowPushFront(w, tab) == [w EXCEPT !.tabs = <<tab>> \o @]

WindowPush(w, tab) == [w EXCEPT !.tabs = Append(@, tab)]

WindowIsEmpty(w) == Len(w.tabs) = 0

\* HashMap::new()
EmptyList == <<>>

\* HashMap::insert: an existing entry of the key is replaced
MapInsert(m, k, v) == [x \in (DOMAIN m) \cup {k} |-> IF x = k THEN v ELSE m[x]]

\* LoopDone that also ends the loop after its first line
LoopDoneAfterFirst(lines, i) == i > 1 \/ i > Len(lines) \/ lines[i] = <<>>

\* the end of a `for line in ...split('\n')` loop: no piece is left, or the
\* piece is empty (lines 69-70 and 159-160)
LoopDone(lines, i) == i > Len(lines) \/ lines[i] = <<>>

\* SessionStep that skips a line the expression does not match
SessionStepSkip(m, line) ==
    LET cap == SessionCaptures(line)
    IN  IF cap.matched
        THEN [panic |-> "none",
              list |-> MapInsert(m, ParseUsize(cap.g1), WindowNew(<<>>, cap.g2))]
        ELSE [panic |-> "none", list |-> m]

\* build_windowlist, lines 72-75: one session line into the WindowList m
SessionStep(m, line) ==
    LET cap == SessionCaptures(line)
    IN  IF cap.matched
        THEN [panic |-> "none",
              list |-> MapInsert(m, ParseUsize(cap.g1), WindowNew(<<>>, cap.g2))]
        ELSE [panic |-> "unwrap on None", list |-> m]

\* WindowStep that makes a session for an id it does not find (insert_or_push
\* of src/src/tinfo.rs)
WindowStepInsertOrPush(m, line) ==
    LET cap == WindowCaptures(line)
    IN  IF ~cap.matched
        THEN [panic |-> "unwrap on None", list |-> m]
        ELSE LET win_ == ParseUsize(cap.g1)
                 new_tab == TabNew(cap.g3, ParseUsize(cap.g2), ParseUsize(cap.g4))
             IN  IF win_ \in DOMAIN m
                 THEN [panic |-> "none",
                       list |-> [m EXCEPT ![win_] = WindowPush(@, new_tab)]]
                 ELSE [panic |-> "none",
                       list |-> MapInsert(m, win_, WindowNew(<<new_tab>>, FALSE))]

\* populate, lines 162-171: one window line into the WindowList m
WindowStep(m, line) ==
    LET cap == WindowCaptures(line)
    IN  IF ~cap.matched
        THEN [panic |-> "unwrap on None", list |-> m]
        ELSE LET win_ == ParseUsize(cap.g1)
                 new_tab == TabNew(cap.g3, ParseUsize(cap.g2), ParseUsize(cap.g4))
             IN  IF win_ \in DOMAIN m
                 THEN [panic |-> "none",
                       list |-> [m EXCEPT ![win_] = WindowPush(@, new_tab)]]
                 ELSE [panic |-> "unreachable", list |-> m]

\* HashMap::iter(): the entries in some order the program does not choose
IterOrders(m) ==
    {o \in [1..Cardinality(DOMAIN m) -> DOMAIN m] :
        \A i, j \in 1..Cardinality(DOMAIN m) : o[i] = o[j] => i = j}

\* MatchingTabs that stops at the first tab that matches
RECURSIVE MatchingTabsFirstOnly(_, _)
MatchingTabsFirstOnly(ts, searchterm) ==
    IF ts = <<>> THEN <<>>
    ELSE IF Contains(Head(ts).name, searchterm) THEN <<Head(ts)>>
    ELSE MatchingTabsFirstOnly(Tail(ts), searchterm)

\* the tabs of ts whose name contains searchterm, in the order of ts
RECURSIVE MatchingTabs(_, _)
MatchingTabs(ts, searchterm) ==
    IF ts = <<>> THEN <<>>
    ELSE (IF Contains(Head(ts).name, searchterm) THEN <<Head(ts)>> ELSE <<>>)
         \o MatchingTabs(Tail(ts), searchterm)

\* the body of select_tabs' outer loop over the sessions `order` lists
RECURSIVE SelectLoop(_, _, _, _)
SelectLoop(m, searchterm, order, out) ==
    IF order = <<>> THEN out
    ELSE LET k == Head(order)
             win == WindowNew(MatchingTabs(m[k].tabs, searchterm), m[k].attached)
         IN  SelectLoop(m, searchterm, Tail(order),
                        IF ~WindowIsEmpty(win) THEN MapInsert(out, k, win) ELSE out)

\* WindowSearch::select_tabs
SelectTabs(m, searchterm) ==
    SelectLoop(m, searchterm, CHOOSE o \in IterOrders(m) : TRUE, EmptyList)

LitSession == <<"S", "e", "s", "s", "i", "o", "n", ":", " ">>

\* the lines dump prints for one session
RECURSIVE TabLines(_)
TabLines(ts) ==
    IF ts = <<>> THEN <<>>
    ELSE <<<<" ", " ">> \o FormatUsize(Head(ts).number) \o LitColonSpace
              \o Head(ts).name>>
         \o TabLines(Tail(ts))

\* WindowSearch::dump, iterating the sessions in `order`
RECURSIVE DumpLines(_, _)
DumpLines(m, order) ==
    IF order = <<>> THEN <<>>
    ELSE LET k == Head(order)
         IN  <<LitSession \o FormatUsize(k)
                 \o (IF m[k].attached THEN LitAttached ELSE <<>>)>>
             \o TabLines(m[k].tabs)
             \o DumpLines(m, Tail(order))

(***************************************************************************)
(* What the run is given: the command line and what tmux answers.          *)
(***************************************************************************)
NoOutput == [ok |-> FALSE, status |-> 0, stdout |-> <<>>]
\* `searched` of main: not bound before line 207, the filtered list after
NoList == [some |-> FALSE, list |-> EmptyList]
SomeList(m) == [some |-> TRUE, list |-> m]

SessionTextLine(id, nwin, attached) ==
    FormatUsize(id) \o LitColonSpace \o FormatUsize(nwin) \o LitWindows
      \o <<"c">> \o LitCloseOpen \o <<"8", "x", "2", "]">>
      \o (IF attached THEN LitAttached ELSE <<>>)

WindowTextLine(id, number, name, panes) ==
    FormatUsize(id) \o <<":">> \o FormatUsize(number) \o LitColonSpace \o name
      \o LitSpaceParen \o FormatUsize(panes) \o LitPanes \o <<"8", "x", "2", "]">>

\* lines tmux list-sessions may print: two sessions, and a line in another
\* layout ("7 2 1")
SessionLinePool ==
    { SessionTextLine(0, 2, FALSE),
      SessionTextLine(1, 1, TRUE),
      <<"7", " ", "2", " ", "1">> }

\* lines tmux list-windows -a may print: three windows, an empty line, and a
\* line that is no window line.  tmux ends every line with a newline.
WindowLinePool ==
    { WindowTextLine(0, 0, <<"s", "h">>, 1),
      WindowTextLine(0, 1, <<"z", "s", "h">>, 2),
      WindowTextLine(1, 0, <<"s", "h">>, 1),
      <<>>,
      <<"0", ":", "x">> }

SeqsUpTo(S, n) == UNION {[1..k -> S] : k \in 0..n}

\* every line followed by a newline
RECURSIVE JoinLines(_)
JoinLines(ls) ==
    IF ls = <<>> THEN <<>> ELSE Head(ls) \o <<NL>> \o JoinLines(Tail(ls))

SessionTexts == {JoinLines(ls) : ls \in SeqsUpTo(SessionLinePool, MaxSessLines)}
WindowTexts == {JoinLines(ls) : ls \in SeqsUpTo(WindowLinePool, MaxWinLines)}

\* process::Command::output(): Err, or Ok with an exit status and the stdout.
\* A tmux that fails (no server running) exits 1 and prints nothing to stdout.
OutputResults(texts) ==
    {NoOutput}
      \cup {[ok |-> TRUE, status |-> 0, stdout |-> t] : t \in texts}
      \cup {[ok |-> TRUE, status |-> 1, stdout |-> <<>>]}

\* the positional arguments: none, an empty one, one word, one word in two parts
ArgsPool == { <<>>, << <<>> >>, << <<"s", "h">> >>, << <<"z">>, <<"s">> >> }
FlagPool == {"none", "get", "attach"}

(***************************************************************************)
(* The run.                                                                *)
(***************************************************************************)
Init ==
    /\ pc = "main"
    /\ args \in ArgsPool
    /\ flag \in FlagPool
    /\ sessOut = NoOutput
    /\ winOut = NoOutput
    /\ idx = 0
    /\ windows = EmptyList
    /\ searched = NoList
    /\ spawned = <<>>
    /\ stdout = <<>>
    /\ panic = "none"

Panic(cause) ==
    /\ pc' = "panicked"
    /\ panic' = cause

TmuxCommand(name, arg) == [cmd |-> name, arg |-> arg]

\* build_windowlist, lines 58-67: run tmux list-sessions
ListSessions ==
    /\ pc = "main"
    /\ \E r \in OutputResults(SessionTexts) :
         IF r.ok
         THEN /\ sessOut' = r
              /\ spawned' = Append(spawned, TmuxCommand("list-sessions", <<>>))
              /\ idx' = 1
              /\ pc' = "session_loop"
              /\ UNCHANGED panic
         ELSE /\ Panic("failed to spawn")
              /\ UNCHANGED <<sessOut, spawned, idx>>
    /\ UNCHANGED <<args, flag, winOut, windows, searched, stdout>>

\* build_windowlist, lines 69-76: one turn of the loop over the session lines
SessionLine ==
    /\ pc = "session_loop"
    /\ LET lines == Split(sessOut.stdout)
       IN  IF LoopDone(lines, idx)
           THEN /\ pc' = "populate"
                /\ UNCHANGED <<idx, windows, panic>>
           ELSE LET r == SessionStep(windows, lines[idx])
                IN  IF r.panic = "none"
                    THEN /\ windows' = r.list
                         /\ idx' = idx + 1
                         /\ UNCHANGED <<pc, panic>>
                    ELSE /\ Panic(r.panic)
                         /\ UNCHANGED <<idx, windows>>
    /\ UNCHANGED <<args, flag, sessOut, winOut, searched, spawned, stdout>>

\* populate, lines 148-157: run tmux list-windows -a
ListWindows ==
    /\ pc = "populate"
    /\ \E r \in OutputResults(WindowTexts) :
         IF r.ok
         THEN /\ winOut' = r
              /\ spawned' = Append(spawned, TmuxCommand("list-windows", <<>>))
              /\ idx' = 1
              /\ pc' = "window_loop"
              /\ UNCHANGED panic
         ELSE /\ Panic("failed to spawn")
              /\ UNCHANGED <<winOut, spawned, idx>>
    /\ UNCHANGED <<args, flag, sessOut, windows, searched, stdout>>

\* populate, lines 159-172: one turn of the loop over the window lines
WindowLine ==
    /\ pc = "window_loop"
    /\ LET lines == Split(winOut.stdout)
       IN  IF LoopDone(lines, idx)
           THEN /\ pc' = "built"
                /\ UNCHANGED <<idx, windows, panic>>
           ELSE LET r == WindowStep(windows, lines[idx])
                IN  IF r.panic = "none"
                    THEN /\ windows' = r.list
                         /\ idx' = idx + 1
                         /\ UNCHANGED <<pc, panic>>
                    ELSE /\ Panic(r.panic)
                         /\ UNCHANGED <<idx, windows>>
    /\ UNCHANGED <<args, flag, sessOut, winOut, searched, spawned, stdout>>

\* main, lines 205-207: search terms were given
Search ==
    /\ pc = "built"
    /\ args # <<>>
    /\ searched' = SomeList(SelectTabs(windows, Concat(args)))
    /\ pc' = "searched"
    /\ UNCHANGED <<args, flag, sessOut, winOut, idx, windows, spawned, stdout,
                   panic>>

\* Command::spawn().unwrap(): the command is started, or the run panics
SpawnOrPanic(command) ==
    \E started \in BOOLEAN :
        IF started
        THEN /\ spawned' = Append(spawned, command)
             /\ pc' = "exit"
             /\ UNCHANGED panic
        ELSE /\ Panic("unwrap on Err")
             /\ UNCHANGED spawned

\* get_cmd without the check of the number of tabs: the first tab is moved,
\* and nothing is done for a session without tabs
GetCmdOnAnyTabCount(m) ==
    IF Cardinality(DOMAIN m) # 1
    THEN /\ Panic("Can only get with a single result")
         /\ UNCHANGED spawned
    ELSE LET k == CHOOSE k \in DOMAIN m : TRUE
         IN  IF Len(m[k].tabs) = 0
             THEN /\ pc' = "exit"
                  /\ UNCHANGED <<spawned, panic>>
             ELSE SpawnOrPanic(TmuxCommand("move-window",
                      FormatUsize(k) \o <<":">> \o FormatUsize(m[k].tabs[1].number)))

\* get_cmd that names the window by its number of panes
GetCmdOnPanes(m) ==
    IF Cardinality(DOMAIN m) # 1
    THEN /\ Panic("Can only get with a single result")
         /\ UNCHANGED spawned
    ELSE LET k == CHOOSE k \in DOMAIN m : TRUE
         IN  IF Len(m[k].tabs) # 1
             THEN /\ Panic("Can only get with a single result")
                  /\ UNCHANGED spawned
             ELSE SpawnOrPanic(TmuxCommand("move-window",
                      FormatUsize(k) \o <<":">> \o FormatUsize(m[k].tabs[1].panes)))

\* WindowSearch::get_cmd on the WindowList m
GetCmdOn(m) ==
    IF Cardinality(DOMAIN m) # 1
    THEN /\ Panic("Can only get with a single result")
         /\ UNCHANGED spawned
    ELSE LET k == CHOOSE k \in DOMAIN m : TRUE
         IN  IF Len(m[k].tabs) # 1
             THEN /\ Panic("Can only get with a single result")
                  /\ UNCHANGED spawned
             ELSE SpawnOrPanic(TmuxCommand("move-window",
                      FormatUsize(k) \o <<":">> \o FormatUsize(m[k].tabs[1].number)))

\* WindowSearch::attach_cmd on the WindowList m
AttachCmdOn(m) ==
    IF Cardinality(DOMAIN m) # 1
    THEN /\ Panic("Can only get with a single result")
         /\ UNCHANGED spawned
    ELSE LET k == CHOOSE k \in DOMAIN m : TRUE
         IN  SpawnOrPanic(TmuxCommand("attach-session", FormatUsize(k)))

\* dump of the unfiltered list, whatever list it is called on
DumpOnUnfiltered(m) ==
    /\ \E order \in IterOrders(windows) :
         stdout' = stdout \o DumpLines(windows, order)
    /\ pc' = "exit"

\* WindowSearch::dump on the WindowList m
DumpOn(m) ==
    /\ \E order \in IterOrders(m) : stdout' = stdout \o DumpLines(m, order)
    /\ pc' = "exit"

\* main, lines 208-209
GetCmd ==
    /\ pc = "searched"
    /\ flag = "get"
    /\ GetCmdOn(searched.list)
    /\ UNCHANGED <<args, flag, sessOut, winOut, idx, windows, searched, stdout>>

\* main, lines 210-211
AttachCmd ==
    /\ pc = "searched"
    /\ flag = "attach"
    /\ AttachCmdOn(searched.list)
    /\ UNCHANGED <<args, flag, sessOut, winOut, idx, windows, searched, stdout>>

\* main, lines 212-213
DumpSearched ==
    /\ pc = "searched"
    /\ flag = "none"
    /\ DumpOn(searched.list)
    /\ UNCHANGED <<args, flag, sessOut, winOut, idx, windows, searched, spawned,
                   panic>>

\* main, lines 215-216: no search terms
DumpAll ==
    /\ pc = "built"
    /\ args = <<>>
    /\ DumpOn(windows)
    /\ UNCHANGED <<args, flag, sessOut, winOut, idx, windows, searched, spawned,
                   panic>>

Next ==
    \/ ListSessions
    \/ SessionLine
    \/ ListWindows
    \/ WindowLine
    \/ Search
    \/ GetCmd
    \/ AttachCmd
    \/ DumpSearched
    \/ DumpAll

Spec == Init /\ [][Next]_vars

(***************************************************************************)
(* get_cmd, attach_cmd and dump applied to any WindowList: the list is     *)
(* drawn from the lists of at most two sessions with at most MaxTabs tabs. *)
(***************************************************************************)
MaxTabs == 2

TabPool == { TabNew(<<"s", "h">>, 0, 1), TabNew(<<"z", "s", "h">>, 1, 2) }

WindowPool == {WindowNew(ts, a) : ts \in SeqsUpTo(TabPool, MaxTabs), a \in BOOLEAN}

ListPool == UNION {[ids -> WindowPool] : ids \in SUBSET {0, 1}}

InitDispatch ==
    /\ pc = "searched"
    /\ args = << <<>> >>
    /\ flag \in FlagPool
    /\ sessOut = NoOutput
    /\ winOut = NoOutput
    /\ idx = 0
    /\ windows = EmptyList
    /\ searched \in {SomeList(m) : m \in ListPool}
    /\ spawned = <<>>
    /\ stdout = <<>>
    /\ panic = "none"

NextDispatch ==
    \/ GetCmd
    \/ AttachCmd
    \/ DumpSearched

SpecDispatch == InitDispatch /\ [][NextDispatch]_vars

(***************************************************************************)
(* The properties.  They read the two query texts through the line         *)
(* formats tmux writes (SessionTextLine, WindowTextLine), not through the  *)
(* regular expressions of the program.                                     *)
(***************************************************************************)
SessionFields == [id : 0..2, nwin : 1..2, attached : BOOLEAN]
WindowFields == [id : 0..2, number : 0..1,
                 name : {<<"s", "h">>, <<"z", "s", "h">>}, panes : 1..2]

\* the line tmux writes for each choice of the fields, with the fields
SessionLineTable ==
    {<<SessionTextLine(f.id, f.nwin, f.attached), f>> : f \in SessionFields}
WindowLineTable ==
    {<<WindowTextLine(f.id, f.number, f.name, f.panes), f>> : f \in WindowFields}

\* the fields of a line of the format; [ok |-> FALSE] for any other text
ReadLine(table, line) ==
    LET hits == {e \in table : e[1] = line}
    IN  IF hits = {} THEN [ok |-> FALSE]
        ELSE [ok |-> TRUE, f |-> (CHOOSE e \in hits : TRUE)[2]]

\* the pieces of a text before its first empty piece
RECURSIVE UpToEmpty(_)
UpToEmpty(ls) ==
    IF ls = <<>> \/ Head(ls) = <<>> THEN <<>>
    ELSE <<Head(ls)>> \o UpToEmpty(Tail(ls))

\* the session lines and the window lines the run was given, each read
ReadAll(table, text) ==
    LET ls == UpToEmpty(Split(text))
    IN  [i \in 1..Len(ls) |-> ReadLine(table, ls[i])]
SessionsRead == ReadAll(SessionLineTable, sessOut.stdout)
WindowsRead == ReadAll(WindowLineTable, winOut.stdout)

\* a text of lines of the format, each ended by a newline, and nothing more
WellFormed(text, read) ==
    /\ Len(Split(text)) = Len(read) + 1
    /\ \A i \in 1..Len(read) : read[i].ok

IdsOf(read) == {read[i].f.id : i \in {j \in 1..Len(read) : read[j].ok}}

\* the place of the first line that is not of the format, 0 if none
FirstMalformed(read) ==
    LET bad == {i \in 1..Len(read) : ~read[i].ok}
    IN  IF bad = {} THEN 0 ELSE CHOOSE i \in bad : \A j \in bad : i <= j

\* the place of the first window line that names a session not in ids, 0 if
\* there is none
FirstUnknown(read, ids) ==
    LET unknown == {i \in 1..Len(read) : read[i].ok /\ read[i].f.id \notin ids}
    IN  IF unknown = {} THEN 0 ELSE CHOOSE i \in unknown : \A j \in unknown : i <= j

\* the tabs the window lines of session k describe, in the order of the lines
TabsOfSession(read, k) ==
    LET mine == SelectSeq(read, LAMBDA r : r.f.id = k)
    IN  [i \in 1..Len(mine) |->
            [name |-> mine[i].f.name,
             number |-> mine[i].f.number,
             panes |-> mine[i].f.panes]]

CardinalityMessage == "Can only get with a single result"

\* build_windowlist has returned its WindowList to main
BuildReturned ==
    \/ pc \in {"built", "searched", "exit"}
    \/ pc = "panicked" /\ panic \in {CardinalityMessage, "unwrap on Err"}

\* C1: for well-formed session and window texts whose window lines name only
\* sessions of the session text, the WindowList build_windowlist returns has
\* exactly the ids of the session lines as keys, every session has the
\* attached flag of its line, and its tabs are the tabs of the window lines
\* that carry its id, in the order of the lines.
C1_BuildMatchesQueries ==
    LET S == SessionsRead
        W == WindowsRead
        ids == IdsOf(S)
    IN  (/\ BuildReturned
         /\ sessOut.ok /\ WellFormed(sessOut.stdout, S)
         /\ \A i, j \in 1..Len(S) : S[i].f.id = S[j].f.id => i = j
         /\ winOut.ok /\ WellFormed(winOut.stdout, W)
         /\ \A i \in 1..Len(W) : W[i].f.id \in ids)
        => /\ DOMAIN windows = ids
           /\ \A i \in 1..Len(S) : windows[S[i].f.id].attached = S[i].f.attached
           /\ \A k \in DOMAIN windows :
                /\ windows[k].tabs = TabsOfSession(W, k)
                /\ Len(windows[k].tabs)
                     = Cardinality({i \in 1..Len(W) : W[i].f.id = k})

\* two sessions were built from two session lines, one of them attached, and
\* session 0 received the tabs of two window lines
C1_Witness ==
    /\ pc = "built"
    /\ WellFormed(sessOut.stdout, SessionsRead)
    /\ WellFormed(winOut.stdout, WindowsRead)
    /\ DOMAIN windows = {0, 1}
    /\ Len(windows[0].tabs) = 2
    /\ windows[0].tabs[1] # windows[0].tabs[2]

\* needle occurs in hay: hay is some text, then needle, then some text
OccursIn(needle, hay) ==
    \E i \in 0..Len(hay) : \E j \in i..Len(hay) : SubSeq(hay, i + 1, j) = needle

MatchesOf(ts, term) == SelectSeq(ts, LAMBDA t : OccursIn(term, t.name))

\* C2: select_tabs keeps exactly the sessions with a tab whose name contains
\* the term; a kept session has its matching tabs, unchanged and in their
\* order, and its attached flag; no session of the result has zero tabs.
C2_SelectTabs ==
    searched.some =>
        LET term == Concat(args)
            out == searched.list
        IN  /\ DOMAIN out =
                 {k \in DOMAIN windows : MatchesOf(windows[k].tabs, term) # <<>>}
            /\ \A k \in DOMAIN out :
                 /\ out[k].tabs = MatchesOf(windows[k].tabs, term)
                 /\ out[k].attached = windows[k].attached
                 /\ Len(out[k].tabs) > 0

\* a search that kept one of the two tabs of a session and dropped another
\* session whole
C2_Witness ==
    /\ searched.some
    /\ Cardinality(DOMAIN windows) = 2
    /\ \E k \in DOMAIN searched.list :
         /\ DOMAIN searched.list = {k}
         /\ Len(windows[k].tabs) = 2
         /\ Len(searched.list[k].tabs) = 1
         /\ searched.list[k].tabs[1] = windows[k].tabs[2]

\* C3, as claimed: filtering with the empty term returns a WindowList with
\* the contents of the one it was given, sessions without windows included.
C3_EmptyTermIsIdentity ==
    (searched.some /\ Concat(args) = <<>>) => searched.list = windows

\* C3, amended: filtering with the empty term returns the sessions that have
\* at least one tab, each with its flag and tabs unchanged; a session
\* without tabs is dropped.
C3_EmptyTermKeepsNonEmpty ==
    (searched.some /\ Concat(args) = <<>>) =>
        /\ DOMAIN searched.list = {k \in DOMAIN windows : Len(windows[k].tabs) > 0}
        /\ \A k \in DOMAIN searched.list : searched.list[k] = windows[k]

\* the empty term was applied to a list with a session of two tabs and a
\* session without windows
C3_Witness ==
    /\ searched.some
    /\ Concat(args) = <<>>
    /\ \E k, e \in DOMAIN windows :
         /\ Len(windows[k].tabs) = 2
         /\ Len(windows[e].tabs) = 0
         /\ k \in DOMAIN searched.list
         /\ e \notin DOMAIN searched.list

\* the side-effecting commands the run has started
Dispatched ==
    SelectSeq(spawned, LAMBDA c : c.cmd \in {"move-window", "attach-session"})

OneSession(m) == \E k \in DOMAIN m : DOMAIN m = {k}
OneSessionOneTab(m) == \E k \in DOMAIN m : DOMAIN m = {k} /\ Len(m[k].tabs) = 1

\* the action has ended, by returning or by a panic
ActionEnded == pc \in {"exit", "panicked"}

\* C4: get_cmd ends in the cardinality panic exactly when its WindowList is
\* not one session with one tab, attach_cmd exactly when its WindowList is
\* not one session; otherwise the action goes on to spawn its command (and
\* ends having started it, or in the panic of a spawn that failed).
C4_Cardinality ==
    (searched.some /\ ActionEnded) =>
        /\ flag = "get" =>
             /\ (panic = CardinalityMessage) <=> ~OneSessionOneTab(searched.list)
             /\ OneSessionOneTab(searched.list) =>
                  \/ pc = "exit" /\ Len(Dispatched) = 1
                  \/ panic = "unwrap on Err" /\ Len(Dispatched) = 0
        /\ flag = "attach" =>
             /\ (panic = CardinalityMessage) <=> ~OneSession(searched.list)
             /\ OneSession(searched.list) =>
                  \/ pc = "exit" /\ Len(Dispatched) = 1
                  \/ panic = "unwrap on Err" /\ Len(Dispatched) = 0
        /\ flag = "none" => panic = "none"

\* get_cmd refused a single session that has no tab
C4_Witness ==
    /\ pc = "panicked"
    /\ flag = "get"
    /\ panic = CardinalityMessage
    /\ \E k \in DOMAIN searched.list :
         DOMAIN searched.list = {k} /\ Len(searched.list[k].tabs) = 0

\* C5: a window line that names a session the session text does not have
\* ends the run in the `unreachable` panic: the loop never goes past the
\* line, no session is made for the id, and the WindowList is not returned.
C5_UnknownSessionPanics ==
    LET ids == IdsOf(SessionsRead)
        u == FirstUnknown(WindowsRead, ids)
    IN  (winOut.ok /\ u # 0) =>
            /\ \/ pc = "window_loop" /\ idx <= u
               \/ pc = "panicked" /\ idx < u
               \/ pc = "panicked" /\ idx = u /\ panic = "unreachable"
            /\ DOMAIN windows \subseteq ids
            /\ ~searched.some
            /\ stdout = <<>>
            /\ Len(Dispatched) = 0

\* the second window line named an unknown session, after a first line
\* whose tab was stored
C5_Witness ==
    /\ pc = "panicked"
    /\ panic = "unreachable"
    /\ FirstUnknown(WindowsRead, IdsOf(SessionsRead)) = 2
    /\ idx = 2
    /\ \E k \in DOMAIN windows : Len(windows[k].tabs) = 1

\* C6, as claimed: a query that cannot be started or that exits with a
\* status other than 0 ends the run: no WindowList is returned, nothing is
\* listed, no command is dispatched.
C6_FailedQueryEndsRun ==
    /\ (sessOut.ok /\ sessOut.status # 0) \/ (winOut.ok /\ winOut.status # 0) =>
         /\ ~BuildReturned
         /\ ~searched.some
         /\ stdout = <<>>
         /\ Len(Dispatched) = 0
    /\ panic = "failed to spawn" =>
         /\ ~searched.some
         /\ stdout = <<>>
         /\ Len(Dispatched) = 0

\* C7: a non-empty line before the first empty line that is not of its
\* format ends the run in the panic of `captures(..).unwrap()`: the loop
\* never goes past the line, and nothing is listed or dispatched.
C7_MalformedLinePanics ==
    LET bs == IF sessOut.ok THEN FirstMalformed(SessionsRead) ELSE 0
        bw == IF winOut.ok THEN FirstMalformed(WindowsRead) ELSE 0
    IN  /\ (sessOut.ok /\ bs # 0) =>
             /\ \/ pc = "session_loop" /\ idx <= bs
                \/ pc = "panicked" /\ idx = bs /\ panic = "unwrap on None"
             /\ Cardinality(DOMAIN windows) < bs
             /\ spawned = <<TmuxCommand("list-sessions", <<>>)>>
             /\ ~searched.some
             /\ stdout = <<>>
        /\ (winOut.ok /\ bw # 0) =>
             /\ \/ pc = "window_loop" /\ idx <= bw
                \/ pc = "panicked" /\ idx < bw /\ panic = "unreachable"
                \/ pc = "panicked" /\ idx = bw /\ panic = "unwrap on None"
             /\ Len(spawned) = 2
             /\ ~searched.some
             /\ stdout = <<>>

\* the second window line was malformed, after a first line whose tab was
\* stored
C7_Witness ==
    /\ pc = "panicked"
    /\ panic = "unwrap on None"
    /\ winOut.ok
    /\ FirstMalformed(WindowsRead) = 2
    /\ idx = 2
    /\ \E k \in DOMAIN windows : Len(windows[k].tabs) = 1

\* every listing dump can print of the WindowList m
Listings(m) == {DumpLines(m, o) : o \in IterOrders(m)}

\* C8, as claimed: the action the flags select is applied to the filtered
\* list when search terms are given and to the unfiltered list when none is;
\* -G or -a without search terms is dispatched on the unfiltered list.
C8_ActionOnEitherList ==
    /\ (pc = "exit" /\ args # <<>> /\ flag = "none") =>
         stdout \in Listings(searched.list) /\ Len(Dispatched) = 0
    /\ (pc = "exit" /\ args # <<>> /\ flag # "none") =>
         stdout = <<>> /\ Len(Dispatched) = 1
    /\ (pc = "exit" /\ args = <<>> /\ flag = "none") =>
         stdout \in Listings(windows) /\ Len(Dispatched) = 0
    /\ (pc = "exit" /\ args = <<>> /\ flag # "none") =>
         stdout = <<>> /\ Len(Dispatched) = 1 /\ OneSession(windows)

\* C8, amended: with search terms the action the flags select is applied to
\* the filtered list; without search terms the unfiltered list is listed,
\* whatever the flags: -G and -a are ignored, nothing is filtered and
\* nothing is dispatched.
C8_NoTermAlwaysLists ==
    /\ (pc = "exit" /\ args # <<>> /\ flag = "none") =>
         stdout \in Listings(searched.list) /\ Len(Dispatched) = 0
    /\ (pc = "exit" /\ args # <<>> /\ flag # "none") =>
         stdout = <<>> /\ Len(Dispatched) = 1
    /\ (pc = "exit" /\ args = <<>>) =>
         /\ stdout \in Listings(windows)
         /\ Len(Dispatched) = 0
         /\ ~searched.some
    /\ args = <<>> => panic \notin {CardinalityMessage, "unwrap on Err"}

\* -G without search terms listed two sessions
C8_Witness ==
    /\ pc = "exit"
    /\ args = <<>>
    /\ flag = "get"
    /\ Cardinality(DOMAIN windows) = 2
    /\ Len(stdout) >= 3

\* the number of tabs stored in the WindowList m
RECURSIVE TabCount(_)
TabCount(m) ==
    IF DOMAIN m = {} THEN 0
    ELSE LET k == CHOOSE k \in DOMAIN m : TRUE
         IN  Len(m[k].tabs) + TabCount([x \in DOMAIN m \ {k} |-> m[x]])

\* C9: list-sessions is the first command and list-windows the second, each
\* started at most once; list-windows is started only when every session
\* line is in the WindowList, and the search and the actions start only
\* when every window line is.
C9_QueriesInSequence ==
    /\ \A i \in 1..Len(spawned) :
         /\ spawned[i].cmd = "list-sessions" <=> i = 1
         /\ spawned[i].cmd = "list-windows" <=> i = 2
    /\ pc \in {"session_loop", "populate"} => Len(spawned) = 1
    /\ (Len(spawned) >= 2 \/ pc \in {"populate", "window_loop"}) =>
         /\ sessOut.ok
         /\ LET S == SessionsRead
            IN  \A i \in 1..Len(S) : S[i].ok /\ S[i].f.id \in DOMAIN windows
    /\ (\/ BuildReturned
        \/ searched.some
        \/ stdout # <<>>
        \/ Len(Dispatched) > 0) =>
         /\ Len(spawned) >= 2
         /\ winOut.ok
         /\ TabCount(windows) = Len(WindowsRead)

\* an action ended after two session lines and two window lines were parsed
C9_Witness ==
    /\ pc = "exit"
    /\ Len(SessionsRead) = 2
    /\ Len(WindowsRead) = 2
    /\ Len(spawned) = 3

\* C10: at most one side-effecting command is started in a run, and only
\* by an action whose cardinality check passed: move-window for the id of
\* the only session and the number of its only tab, attach-session for the
\* id of the only session.  Relocate and Attach that return have started
\* exactly one; List, and an action that ends in the cardinality panic,
\* none.
C10_OneDispatch ==
    /\ Len(Dispatched) <= 1
    /\ Len(Dispatched) = 1 =>
         /\ pc = "exit"
         /\ searched.some
         /\ stdout = <<>>
         /\ \E k \in DOMAIN searched.list :
              /\ DOMAIN searched.list = {k}
              /\ \/ /\ flag = "get"
                    /\ Len(searched.list[k].tabs) = 1
                    /\ Dispatched[1] =
                         TmuxCommand("move-window",
                             <<Digits[k + 1], ":",
                               Digits[searched.list[k].tabs[1].number + 1]>>)
                 \/ /\ flag = "attach"
                    /\ Dispatched[1] = TmuxCommand("attach-session", <<Digits[k + 1]>>)
    /\ (pc = "exit" /\ searched.some /\ flag # "none") => Len(Dispatched) = 1
    /\ (pc = "exit" /\ (flag = "none" \/ ~searched.some)) => Len(Dispatched) = 0
    /\ panic = CardinalityMessage => Len(Dispatched) = 0

\* move-window was started for tab 1 of session 0, the only match of a
\* search in two sessions
C10_Witness ==
    /\ pc = "exit"
    /\ flag = "get"
    /\ Len(Dispatched) = 1
    /\ Dispatched[1] = TmuxCommand("move-window", <<"0", ":", "1">>)
    /\ Cardinality(DOMAIN windows) = 2

====
